---- MODULE Spec2Model ----
(***************************************************************************)
(* hex2c: conversion between Intel HEX, binary and C include format.       *)
(*                                                                         *)
(* The module models the Intel HEX line parser (hex_parse), the loader     *)
(* (load_hex), the two HEX encoders (dump_hex of hex2c.c, and the          *)
(* dump_hex with image base and entry point) and the driver (main).        *)
(* Text is modelled character by character: a line is a sequence of        *)
(* one-character strings, so that formatting and parsing are computed.     *)
(***************************************************************************)
EXTENDS Integers, Sequences, FiniteSets, TLC

\* ---------------------------------------------------------------- bounds
\* longest input file, in physical lines
MaxLines == 3
\* largest byte count of a generated record (parser inputs)
MaxCount == 2
\* largest image handed to the encoders, in bytes
MaxSz == 18

\* ------------------------------------------------------- program constants
UINT8_MAX == 255
UINT16_MAX == 65535
MAX_SIZE == UINT16_MAX + 1
MIN_LINE == 11
MAX_LINE == MIN_LINE + 2 * UINT8_MAX
\* char line[MAX_LINE + 3] in load_hex
LINE_BUF == MAX_LINE + 3

\* ------------------------------------------------------------- characters
HexUpper == <<"0","1","2","3","4","5","6","7","8","9","A","B","C","D","E","F">>
HexLower == <<"0","1","2","3","4","5","6","7","8","9","a","b","c","d","e","f">>

\* isxdigit() of <ctype.h>, C locale
isxdigit(c) == (\E k \in 1..16 : HexUpper[k] = c) \/ (\E k \in 1..16 : HexLower[k] = c)

\* value of one hexadecimal digit, as strtoul(.., 16) reads it
DigitVal(c) ==
    IF \E k \in 1..16 : HexUpper[k] = c
    THEN (CHOOSE k \in 1..16 : HexUpper[k] = c) - 1
    ELSE (CHOOSE k \in 1..16 : HexLower[k] = c) - 1

\* line[i] with the C (0-based) index
At(line, i) == line[i + 1]

\* strtoul(s, NULL, 16) on the characters line[pos .. pos+n-1]: digits are
\* accumulated until the first character that is no hex digit
RECURSIVE strtoul16(_, _, _, _)
strtoul16(line, pos, n, acc) ==
    IF n = 0 \/ pos >= Len(line) \/ ~isxdigit(At(line, pos))
    THEN acc
    ELSE strtoul16(line, pos + 1, n - 1, acc * 16 + DigitVal(At(line, pos)))

\* read hex number from string (at most 4 digits: the value fits unsigned)
hex_scan(line, pos, length) == strtoul16(line, pos, length, 0)
hex_scan8(line, pos) == hex_scan(line, pos, 2)
hex_scan16(line, pos) == hex_scan(line, pos, 4)

\* printf("%0<w>X", n): upper-case digits, at least w of them
RECURSIVE FmtX(_, _)
FmtX(n, w) ==
    IF w <= 1 /\ n < 16
    THEN <<HexUpper[n + 1]>>
    ELSE FmtX(n \div 16, w - 1) \o <<HexUpper[(n % 16) + 1]>>

\* (uint8_t)x
U8(x) == x % 256

\* ----------------------------------------------------------------- parser
\* the chunk left by a failed parse: length and address are 0
Reject == [type |-> -1, address |-> 0, length |-> 0, data |-> <<>>]

\* the data/checksum loop of hex_parse: sum of the count+1 bytes from line[9]
RECURSIVE ScanSum(_, _, _)
ScanSum(line, i, count) ==
    IF i > count THEN 0
    ELSE hex_scan8(line, 9 + 2 * i) + ScanSum(line, i + 1, count)

\* (mutant) the high byte of the address is left out of the sum
hex_sum_no_high(line, count, address, type) ==
    count + (address % 256) + type + ScanSum(line, 0, count)

\* hex_parse: the sum of count, address, type, data and checksum
hex_sum(line, count, address, type) ==
    count + (address \div 256) + address + type + ScanSum(line, 0, count)

\* (mutant) characters after the checksum are let through
bad_count_short(length, count) == length - 2 * count < MIN_LINE

\* hex_parse: the line is not as long as its count says
bad_count(length, count) == length - 2 * count # MIN_LINE

\* (mutant) the count is left out of the overflow test
past_max_no_count(address, count) == address > MAX_SIZE

\* hex_parse: the record would end past MAX_SIZE
past_max(address, count) == address + count > MAX_SIZE

\* (mutant) the characters are not tested
bad_digits_ignored(line, length) == FALSE

\* hex_parse: some character after the colon is no hex digit
bad_digits(line, length) == \E i \in 1..(length - 1) : ~isxdigit(At(line, i))

\* parse one Intel HEX line: record type or -1, and the chunk
hex_parse(line) ==
    LET length0 == Len(line) IN
    IF length0 = 0 \/ At(line, 0) # ":" THEN Reject
    ELSE
    LET length1 == IF At(line, length0 - 1) = "\n" THEN length0 - 1 ELSE length0
        length == IF At(line, length1 - 1) = "\r" THEN length1 - 1 ELSE length1
    IN
    IF length < MIN_LINE \/ length > MAX_LINE \/ length % 2 = 0 THEN Reject
    ELSE IF bad_digits(line, length) THEN Reject
    ELSE
    LET count == hex_scan8(line, 1)
        address == hex_scan16(line, 3)
        type == hex_scan8(line, 7)
    IN
    \* length - 2 * count is unsigned: a negative difference wraps to a value
    \* far above MIN_LINE, so the comparison is that of the integers
    IF bad_count(length, count) \/ past_max(address, count)
    THEN Reject
    ELSE
    LET sum == hex_sum(line, count, address, type)
    IN
    IF U8(sum) # 0 THEN Reject
    ELSE [type |-> type, address |-> address, length |-> count,
          data |-> [i \in 1..count |-> hex_scan8(line, 9 + 2 * (i - 1))]]

\* ------------------------------------------------------------------ state
VARIABLES
    file,       \* the input stream: its physical lines, each a sequence of characters
    fline,      \* stream position: index of the physical line being read
    foff,       \* stream position: characters of that line already consumed
    lineno,     \* load_hex: loop counter
    found_eof,  \* load_hex: EOF record seen
    bin,        \* the 64KB working buffer / image: written address -> byte
    sz,         \* image size
    warnings,   \* calls of warn(), in order: [lineno, msg]
    err,        \* what warn() printed on stderr
    out,        \* lines printed on the output file
    o_silent,   \* user option -s
    o_wrap,     \* user option -w, as stored by main
    w_arg,      \* the number given with -w (0: option not given)
    img,        \* encoder input: [data, sz, base, entry]
    ver,        \* which program is run
    pline,      \* parser input line
    pres,       \* parser result
    runs,       \* runs of main to do, the current one included; 0: load_hex alone
    pc          \* position in the program

vars == <<file, fline, foff, lineno, found_eof, bin, sz, warnings, err, out,
          o_silent, o_wrap, w_arg, img, ver, pline, pres, runs, pc>>

xmin(x, y) == IF x < y THEN x ELSE y
xmax(x, y) == IF x > y THEN x ELSE y

\* a byte of the image: the buffer is filled with UINT8_MAX before the load
Peek(mem, a) == IF a \in DOMAIN mem THEN mem[a] ELSE UINT8_MAX

\* (mutant) bytes written before are kept
memcpy_first(mem, address, data, length) ==
    [a \in DOMAIN mem \cup {address + j : j \in 0..(length - 1)} |->
        IF a \in DOMAIN mem THEN mem[a] ELSE data[a - address + 1]]

\* memcpy(*bin + address, data, length)
memcpy(mem, address, data, length) ==
    [a \in DOMAIN mem \cup {address + j : j \in 0..(length - 1)} |->
        IF a >= address /\ a < address + length
        THEN data[a - address + 1] ELSE mem[a]]

\* fgets(line, sizeof(line), f): at most LINE_BUF - 1 characters, none past a newline
FgetsLen == xmin(LINE_BUF - 1, Len(file[fline]) - foff)
FgetsLine == SubSeq(file[fline], foff + 1, foff + FgetsLen)
FgetsEOF == fline > Len(file)

\* all the lines fgets returns on a stream, in order
RECURSIVE SplitLine(_)
SplitLine(l) ==
    IF Len(l) <= LINE_BUF - 1 THEN <<l>>
    ELSE <<SubSeq(l, 1, LINE_BUF - 1)>> \o SplitLine(SubSeq(l, LINE_BUF, Len(l)))
RECURSIVE fgets_all(_)
fgets_all(f) == IF f = <<>> THEN <<>> ELSE SplitLine(Head(f)) \o fgets_all(Tail(f))

\* warn(): the call is recorded ...
warn(ws, n, msg) == Append(ws, [lineno |-> n, msg |-> msg])
\* ... and the message is printed unless -s was given
WarnLine(w) == <<"Warning (line ", w.lineno, "): ", w.msg>>
warn_print(silent, e, old, new) ==
    IF silent THEN e
    ELSE e \o [i \in 1..(Len(new) - Len(old)) |-> WarnLine(new[Len(old) + i])]

\* the locals of load_hex before the loop
LoadState0 ==
    [bin |-> <<>>, sz |-> 0, found_eof |-> FALSE, lineno |-> 1, warnings |-> <<>>]

\* switch case 0: the chunk is copied into the buffer
load_data(st, chunk) ==
    [st EXCEPT !.bin = memcpy(@, chunk.address, chunk.data, chunk.length),
               !.sz = xmax(@, chunk.address + chunk.length)]

\* (mutant) the EOF record does not end the loop
load_eof_ignored(st) == st

\* switch case 1
load_eof(st) == [st EXCEPT !.found_eof = TRUE]

\* the body of the read loop after fgets: hex_parse, switch, ++lineno
load_body(st, line) ==
    LET chunk == hex_parse(line)
        st1 == CASE chunk.type = 0 -> load_data(st, chunk)
                 [] chunk.type = 1 -> load_eof(st)
                 [] chunk.type \in 2..5 ->
                      [st EXCEPT !.warnings = warn(@, st.lineno, "extended record")]
                 [] OTHER ->
                      [st EXCEPT !.warnings = warn(@, st.lineno, "invalid record")]
    IN  [st1 EXCEPT !.lineno = @ + 1]

\* (mutant) a missing EOF record is treated as a failed load
load_noeof_fails(st) ==
    [st EXCEPT !.warnings = warn(@, st.lineno, "no EOF record"), !.sz = 0]

\* fgets returned NULL
load_noeof(st) == [st EXCEPT !.warnings = warn(@, st.lineno, "no EOF record")]

\* shrink memory block: realloc to sz bytes, or free
load_shrink(st) == [st EXCEPT !.bin = [a \in {x \in DOMAIN @ : x < st.sz} |-> @[a]]]

\* load_hex as a function of the lines fgets returns
RECURSIVE load_loop(_, _)
load_loop(st, lines) ==
    IF st.found_eof THEN st
    ELSE IF lines = <<>> THEN load_noeof(st)
    ELSE load_loop(load_body(st, Head(lines)), Tail(lines))
load_lines(lines) == load_shrink(load_loop(LoadState0, lines))
load_hex(f) == load_lines(fgets_all(f))

\* the locals of load_hex in the current state
Cur == [bin |-> bin, sz |-> sz, found_eof |-> found_eof, lineno |-> lineno,
        warnings |-> warnings]
Becomes(st) ==
    /\ bin' = st.bin /\ sz' = st.sz /\ found_eof' = st.found_eof
    /\ lineno' = st.lineno /\ warnings' = st.warnings
    /\ err' = warn_print(o_silent, err, warnings, st.warnings)

\* one iteration of the read loop of load_hex
LoadLine ==
    /\ pc = "load" /\ ~found_eof /\ ~FgetsEOF
    /\ IF foff + FgetsLen = Len(file[fline])
       THEN fline' = fline + 1 /\ foff' = 0
       ELSE fline' = fline /\ foff' = foff + FgetsLen
    /\ Becomes(load_body(Cur, FgetsLine))
    /\ pc' = IF found_eof' THEN "shrink" ELSE "load"
    /\ UNCHANGED <<file, out, o_silent, o_wrap, w_arg, img, ver, pline, pres, runs>>

\* fgets returns NULL: warning, and the loop is left
LoadNoEOF ==
    /\ pc = "load" /\ ~found_eof /\ FgetsEOF
    /\ Becomes(load_noeof(Cur))
    /\ pc' = "shrink"
    /\ UNCHANGED <<file, fline, foff, out, o_silent, o_wrap, w_arg, img, ver, pline,
                   pres, runs>>

\* shrink memory block and return sz
LoadShrink ==
    /\ pc = "shrink"
    /\ Becomes(load_shrink(Cur))
    /\ pc' = "loaded"
    /\ UNCHANGED <<file, fline, foff, out, o_silent, o_wrap, w_arg, img, ver, pline,
                   pres, runs>>

\* ----------------------------------------------------------- input lines
\* the bytes of data printed with %02X one after the other
FlatHex(data) ==
    [c \in 1..(2 * Len(data)) |-> FmtX(data[(c + 1) \div 2], 2)[2 - (c % 2)]]

\* the sum of the numbers of s (by halves, to keep the evaluation shallow)
RECURSIVE SeqSum(_)
SeqSum(s) ==
    IF s = <<>> THEN 0
    ELSE IF Len(s) = 1 THEN s[1]
    ELSE LET h == Len(s) \div 2
         IN  SeqSum(SubSeq(s, 1, h)) + SeqSum(SubSeq(s, h + 1, Len(s)))

\* the text of a record: colon count address type data checksum, then eol
MkLine(cc, aaaa, tt, data, ss, eol) ==
    <<":">> \o FmtX(cc, 2) \o FmtX(aaaa, 4) \o FmtX(tt, 2) \o FlatHex(data)
            \o FmtX(ss, 2) \o eol

\* the checksum byte that makes the byte sum of a record 0 modulo 256
GoodSum(cc, aaaa, tt, data) ==
    (256 - ((cc + (aaaa \div 256) + (aaaa % 256) + tt + SeqSum(data)) % 256)) % 256

LF == <<"\n">>
CRLF == <<"\r", "\n">>

\* a record with a valid checksum
Rec(aaaa, tt, data) ==
    MkLine(Len(data), aaaa, tt, data, GoodSum(Len(data), aaaa, tt, data), LF)

\* n times the character c
Rep(c, n) == [i \in 1..n |-> c]

\* ---------------------------------------------------------------- encoders
EOFRecord == <<":","0","0","0","0","0","0","0","1","F","F","\n">>

\* (uint8_t)(-sum) for an unsigned sum: 2^32 - sum, truncated to 8 bits
NegU8(sum) == U8(256 - U8(sum))

\* data[i .. i+cb-1]
DataBytes(data, i, cb) == [j \in 1..cb |-> Peek(data, i + j - 1)]

\* the line printed by one iteration of the record loop of dump_hex (hex2c.c)
dump_hex_record(data, size, wrap, i) ==
    LET cb == xmin(wrap, size - i)
        bytes == DataBytes(data, i, cb)
        sum == cb + (i \div 256) + i + SeqSum(bytes)
    IN  <<":">> \o FmtX(cb, 2) \o FmtX(i, 4) \o <<"0", "0">> \o FlatHex(bytes)
                \o FmtX(NegU8(sum), 2) \o LF

\* the record loop of dump_hex (hex2c.c), from offset i: one iteration for each
\* of i, i + wrap, i + 2 * wrap, ... below size
dump_hex_loop(data, size, wrap, i) ==
    LET n == IF i >= size THEN 0 ELSE (size - i + wrap - 1) \div wrap
    IN  [k \in 1..n |-> dump_hex_record(data, size, wrap, i + (k - 1) * wrap)]

\* (mutant) the default wrap of dump_c is used
dump_hex_wrap8(data, size, wrapopt) ==
    LET size1 == xmin(size, MAX_SIZE)
        wrap == IF wrapopt # 0 THEN wrapopt ELSE 8
    IN  dump_hex_loop(data, size1, wrap, 0) \o <<EOFRecord>>

\* (mutant) the size is not limited to MAX_SIZE
dump_hex_unlimited(data, size, wrapopt) ==
    LET wrap == IF wrapopt # 0 THEN wrapopt ELSE 16
    IN  dump_hex_loop(data, size, wrap, 0) \o <<EOFRecord>>

\* format output as Intel HEX file (hex2c.c): the lines printed
dump_hex(data, size, wrapopt) ==
    LET size1 == xmin(size, MAX_SIZE)
        wrap == IF wrapopt # 0 THEN wrapopt ELSE 16
    IN  dump_hex_loop(data, size1, wrap, 0) \o <<EOFRecord>>

\* the line printed by one iteration of the record loop of
\* dump_hex (image, sz, base, entry)
dump_hex_be_record(image, size, base, wrap, i) ==
    LET cb == xmin(wrap, size - i)
        bytes == DataBytes(image, i, cb)
        sum == cb + (base \div 256) + base + (i \div 256) + i + SeqSum(bytes)
    IN  <<":">> \o FmtX(cb, 2) \o FmtX(base + i, 4) \o <<"0", "0">>
                \o FlatHex(bytes) \o FmtX(NegU8(sum), 2) \o LF

\* the record loop of dump_hex (image, sz, base, entry), from offset i
dump_hex_be_loop(image, size, base, wrap, i) ==
    LET n == IF i >= size THEN 0 ELSE (size - i + wrap - 1) \div wrap
    IN  [k \in 1..n |-> dump_hex_be_record(image, size, base, wrap, i + (k - 1) * wrap)]

\* the start address record of dump_hex (image, sz, base, entry)
EntryRecord(entry) ==
    LET hi == U8(entry \div 256)
        lo == U8(entry)
        sum == 4 + 3 + hi + lo
    IN  <<":","0","4","0","0","0","0","0","3","0","0","0","0">>
        \o FmtX(hi, 2) \o FmtX(lo, 2) \o FmtX(NegU8(sum), 2) \o LF

\* (mutant) the start address record is written after the EOF record
dump_hex_be_entry_last(image, size, base, entry, wrapopt) ==
    LET wrap == IF wrapopt # 0 THEN wrapopt ELSE 16
    IN  dump_hex_be_loop(image, size, base, wrap, 0)
        \o <<EOFRecord>>
        \o (IF entry > 0 THEN <<EntryRecord(entry)>> ELSE <<>>)

\* format output as Intel HEX file, with image base and entry point
dump_hex_be(image, size, base, entry, wrapopt) ==
    LET wrap == IF wrapopt # 0 THEN wrapopt ELSE 16
    IN  dump_hex_be_loop(image, size, base, wrap, 0)
        \o (IF entry > 0 THEN <<EntryRecord(entry)>> ELSE <<>>)
        \o <<EOFRecord>>

\* ------------------------------------------------------------------ driver
\* main, option -w NUM: the value is kept if it is at most UINT8_MAX
set_wrap(num) == IF num > UINT8_MAX THEN 0 ELSE num

\* main, read in, case 'B': the whole file is the image
ReadBinary ==
    /\ pc = "readbin"
    /\ bin' = img.data
    /\ sz' = img.sz
    /\ pc' = "loaded"
    /\ UNCHANGED <<file, fline, foff, lineno, found_eof, warnings, err, out,
                   o_silent, o_wrap, w_arg, img, ver, pline, pres, runs>>

\* main, write out, case 'h': nothing is written for an empty image
MainWrite ==
    /\ pc = "loaded" /\ runs > 0
    /\ out' = IF sz > 0 THEN dump_hex(bin, sz, o_wrap) ELSE <<>>
    /\ pc' = "done"
    /\ UNCHANGED <<file, fline, foff, lineno, found_eof, bin, sz, warnings, err,
                   o_silent, o_wrap, w_arg, img, ver, pline, pres, runs>>

\* main of the program with image base and entry point, write out, case 'x'
MainWriteBE ==
    /\ pc = "encode"
    /\ out' = dump_hex_be(img.data, img.sz, img.base, img.entry, o_wrap)
    /\ pc' = "done"
    /\ UNCHANGED <<file, fline, foff, lineno, found_eof, bin, sz, warnings, err,
                   o_silent, o_wrap, w_arg, img, ver, pline, pres, runs>>

\* the state of load_hex at its first loop test
LoadStart(f) ==
    /\ file = f /\ fline = 1 /\ foff = 0 /\ lineno = 1 /\ found_eof = FALSE
    /\ bin = <<>> /\ sz = 0 /\ warnings = <<>> /\ err = <<>>

\* the output file of the run is read back by load_hex
Rerun ==
    /\ pc = "done" /\ runs > 0
    /\ runs' = runs - 1
    /\ file' = out /\ fline' = 1 /\ foff' = 0 /\ lineno' = 1 /\ found_eof' = FALSE
    /\ bin' = <<>> /\ sz' = 0 /\ warnings' = <<>> /\ err' = <<>> /\ out' = <<>>
    /\ pc' = "load"
    /\ UNCHANGED <<o_silent, o_wrap, w_arg, img, ver, pline, pres>>

\* hex_parse applied to one line
Parse ==
    /\ pc = "parse"
    /\ pres' = hex_parse(pline)
    /\ pc' = "parsed"
    /\ UNCHANGED <<file, fline, foff, lineno, found_eof, bin, sz, warnings, err, out,
                   o_silent, o_wrap, w_arg, img, ver, pline, runs>>

\* ------------------------------------------------------------ input files
\* :0300300002337A1E
L_data30 == Rec(48, 0, <<2, 51, 122>>)
\* the same record ended by CR LF, and ended by nothing (last line of a file)
L_data30_crlf == SubSeq(L_data30, 1, Len(L_data30) - 1) \o CRLF
L_data30_nonl == SubSeq(L_data30, 1, Len(L_data30) - 1)
\* one byte at the last address, and two bytes from the last address
L_top1 == Rec(65535, 0, <<170>>)
L_top2 == Rec(65535, 0, <<170, 187>>)
\* wrong checksum, a digit missing, a character that is no hex digit
L_badsum == MkLine(3, 48, 0, <<2, 51, 122>>, 31, LF)
L_short == SubSeq(L_data30, 1, Len(L_data30) - 2) \o LF
L_nonhex == [L_data30 EXCEPT ![10] = "G"]
\* record types 2, 3 and 6
L_ext2 == Rec(0, 2, <<16, 0>>)
L_start3 == EntryRecord(4660)
L_type6 == Rec(0, 6, <<>>)
\* a data record of no bytes at address 0x0100
L_zero == Rec(256, 0, <<>>)
\* two bytes at 0x0031, over the bytes of L_data30
L_over == Rec(49, 0, <<85, 170>>)
\* a physical line longer than the read buffer, ending in the text of a data record
L_long == <<":">> \o Rep("0", LINE_BUF - 2) \o Rec(0, 0, <<66>>)

\* an extended record at the last address, one byte over the last address
L_ext_top == Rec(65535, 2, <<16, 0>>)
\* a record of type 6 with data
L_type6_data == Rec(48, 6, <<1>>)
\* :01003000FFFF
L_data30_ff == MkLine(1, 48, 0, <<255>>, 255, LF)
\* a record with a byte more, and one with a byte less, than its count says
L_more == MkLine(1, 48, 0, <<2, 205>>, 0, LF)
L_less == MkLine(2, 48, 0, <<2>>, 204, LF)
\* one byte at 0x0030 and four bytes from 0x002F, over the bytes of L_data30
L_over1 == Rec(48, 0, <<9>>)
L_over4 == Rec(47, 0, <<17, 34, 51, 68>>)

\* lines of the files given to load_hex to see how each kind of record is treated
RecLines == {L_data30, L_over1, L_over4, EOFRecord, L_ext2, L_ext_top,
             L_type6, L_type6_data, L_data30_ff, L_more, L_less, L_long}

\* lines of the files given to the whole program
MainLines == {L_data30, L_data30_nonl, EOFRecord, L_badsum, L_short, L_ext2,
              L_type6, L_zero, L_over}
\* lines of the files given to load_hex
LoadLines == MainLines \cup {L_data30_crlf, L_top1, L_top2, L_nonhex, L_start3, L_long}

\* a text file: every line but the last ends with a newline
IsTextFile(f) == \A i \in 1..(Len(f) - 1) : f[i][Len(f[i])] = "\n"

Files(lines, n) ==
    {f \in UNION {[1..k -> lines] : k \in 0..n} : IsTextFile(f)}

\* values of the option -w
WrapArgs == {0, 1, 3, 16, 255, 256, 300}

\* image contents
Pattern(p, i) == IF p = 1 THEN (37 * i + 2) % 256 ELSE UINT8_MAX
ImageBases == {0, 48, 255, 65520}
ImageEntries == {0, 255, 4660, 65535}
Images ==
    {[data |-> [i \in 0..(n - 1) |-> Pattern(p, i)], sz |-> n, base |-> b, entry |-> e] :
        n \in 1..MaxSz, p \in 1..2, b \in ImageBases, e \in ImageEntries}
\* binary files of 64KB and more: the bytes not listed are UINT8_MAX
BigSizes == {MAX_SIZE - 1, MAX_SIZE, MAX_SIZE + 1, MAX_SIZE + UINT8_MAX}
BigImages ==
    {[data |-> [a \in {0, MAX_SIZE - 1, MAX_SIZE} \cap 0..(n - 1) |-> Pattern(1, a)],
      sz |-> n, base |-> 0, entry |-> 0] : n \in BigSizes}
NoImage == [data |-> <<>>, sz |-> 0, base |-> 0, entry |-> 0]

\* generated parser inputs
ByteVals == {0, 122, 255}
LineAddrs == {0, 48, 255, 256, 65534, 65535}
LineTypes == {0, 1, 2, 5, 6, 255}
LineEols == {LF, CRLF, <<>>}
DataSeqs == UNION {[1..k -> ByteVals] : k \in 0..MaxCount}
ParseLines ==
    {MkLine(cc, a, t, d, (GoodSum(cc, a, t, d) + delta) % 256, eol) :
        cc \in 0..MaxCount, a \in LineAddrs, t \in LineTypes, d \in DataSeqs,
        delta \in {0, 1, 128}, eol \in LineEols}
    \cup LoadLines
    \cup {<<>>, LF, <<":">>, <<":">> \o LF, Tail(EOFRecord),
          <<":","0","0","0","0","0","0","0","0","G","0","\n">>,
          <<" ">> \o EOFRecord, SubSeq(EOFRecord, 1, 11) \o <<"\n", "\r">>,
          <<":","0">> \o Rec(0, 0, <<>>),
          <<":","0","0","0","0","0","0","0","1","f","f","\n">>}

\* ------------------------------------------------------ initial conditions
Idle ==
    /\ pline = <<>> /\ pres = Reject /\ out = <<>>

\* hex2c -H -h FILE
Init ==
    /\ \E f \in Files(MainLines, MaxLines) : LoadStart(f)
    /\ o_silent \in BOOLEAN
    /\ w_arg \in {0, 3, 16} /\ o_wrap = set_wrap(w_arg)
    /\ img = NoImage /\ ver = "hex2c.c" /\ runs = 1
    /\ Idle
    /\ pc = "load"

\* load_hex called on FILE
InitLoad ==
    /\ \E f \in Files(LoadLines, MaxLines) : LoadStart(f)
    /\ o_silent = FALSE
    /\ w_arg = 0 /\ o_wrap = set_wrap(w_arg)
    /\ img = NoImage /\ ver = "hex2c.c" /\ runs = 0
    /\ Idle
    /\ pc = "load"

\* an image is encoded (hex2c -B -h, or the program with base and entry, -x),
\* and the output is then read by load_hex
InitEnc ==
    /\ LoadStart(<<>>)
    /\ o_silent = FALSE
    /\ w_arg \in WrapArgs /\ o_wrap = set_wrap(w_arg)
    /\ img \in Images
    /\ img.base + img.sz <= MAX_SIZE
    /\ ver \in {"hex2c.c", "part_002"}
    /\ ver = "hex2c.c" => img.base = 0 /\ img.entry = 0
    /\ runs = 1
    /\ Idle
    /\ pc = IF ver = "hex2c.c" THEN "readbin" ELSE "encode"

\* an image of any size is encoded (hex2c -B -h, or -x of the program with base
\* and entry); the image of the latter fits the 64KB address space
InitDump ==
    /\ LoadStart(<<>>)
    /\ o_silent = FALSE
    /\ w_arg \in WrapArgs /\ o_wrap = set_wrap(w_arg)
    /\ img \in Images \cup BigImages
    /\ img.sz > MaxSz => w_arg = UINT8_MAX
    /\ ver \in {"hex2c.c", "part_002"}
    /\ ver = "hex2c.c" => img.base = 0 /\ img.entry = 0
    /\ ver = "part_002" => img.base + img.sz <= MAX_SIZE
    /\ runs = 1
    /\ Idle
    /\ pc = IF ver = "hex2c.c" THEN "readbin" ELSE "encode"

\* load_hex called on a FILE of records of every kind
InitRec ==
    /\ \E f \in Files(RecLines, MaxLines) : LoadStart(f)
    /\ o_silent = FALSE
    /\ w_arg = 0 /\ o_wrap = set_wrap(w_arg)
    /\ img = NoImage /\ ver = "hex2c.c" /\ runs = 0
    /\ Idle
    /\ pc = "load"

\* hex_parse called on one line
InitParse ==
    /\ LoadStart(<<>>)
    /\ o_silent = FALSE /\ w_arg = 0 /\ o_wrap = set_wrap(w_arg)
    /\ img = NoImage /\ ver = "hex2c.c" /\ runs = 0
    /\ pline \in ParseLines /\ pres = Reject /\ out = <<>>
    /\ pc = "parse"

Next == LoadLine \/ LoadNoEOF \/ LoadShrink \/ MainWrite
NextLoad == LoadLine \/ LoadNoEOF \/ LoadShrink
NextEnc == ReadBinary \/ MainWrite \/ MainWriteBE \/ Rerun \/ LoadLine \/ LoadShrink
NextParse == Parse
NextDump == ReadBinary \/ MainWrite \/ MainWriteBE

Spec == Init /\ [][Next]_vars
SpecLoad == InitLoad /\ [][NextLoad]_vars
SpecEnc == InitEnc /\ [][NextEnc]_vars
SpecParse == InitParse /\ [][NextParse]_vars
SpecDump == InitDump /\ [][NextDump]_vars
SpecRec == InitRec /\ [][NextLoad]_vars

\* ================================================================ properties
\* The text of a line is decoded here on its own, digit by digit.
Nib(c) ==
    CASE c = "0" -> 0 [] c = "1" -> 1 [] c = "2" -> 2 [] c = "3" -> 3
      [] c = "4" -> 4 [] c = "5" -> 5 [] c = "6" -> 6 [] c = "7" -> 7
      [] c = "8" -> 8 [] c = "9" -> 9
      [] c \in {"A", "a"} -> 10 [] c \in {"B", "b"} -> 11 [] c \in {"C", "c"} -> 12
      [] c \in {"D", "d"} -> 13 [] c \in {"E", "e"} -> 14 [] c \in {"F", "f"} -> 15
      [] OTHER -> -1

\* the line without its line end (LF, or CR LF, or CR)
Stripped(line) ==
    LET a == IF line # <<>> /\ line[Len(line)] = "\n"
             THEN SubSeq(line, 1, Len(line) - 1) ELSE line
    IN  IF a # <<>> /\ a[Len(a)] = "\r" THEN SubSeq(a, 1, Len(a) - 1) ELSE a

\* a colon followed by an even number of hex digits
IsHexText(line) ==
    LET t == Stripped(line) IN
    /\ Len(t) >= 1 /\ t[1] = ":" /\ Len(t) % 2 = 1
    /\ \A i \in 2..Len(t) : Nib(t[i]) >= 0

\* the k-th byte written on the line, k = 0 for the count
TextByte(line, k) == 16 * Nib(line[2 + 2 * k]) + Nib(line[3 + 2 * k])
TextBytes(line) ==
    [k \in 1..((Len(Stripped(line)) - 1) \div 2) |-> TextByte(line, k - 1)]
TextSum(line) == SeqSum(TextBytes(line))
TextCount(line) == TextByte(line, 0)
TextAddr(line) == 256 * TextByte(line, 1) + TextByte(line, 2)
TextType(line) == TextByte(line, 3)
TextData(line) == [j \in 1..TextCount(line) |-> TextByte(line, 3 + j)]

\* the line has the shape of a record: colon, hex digits, as many as the count says
HasShape(line) ==
    /\ IsHexText(line)
    /\ Len(Stripped(line)) >= 11 /\ Len(Stripped(line)) <= 11 + 2 * 255
    /\ Len(Stripped(line)) = 11 + 2 * TextCount(line)

\* ... and it does not run past the 64KB address space
WellFormed(line) == HasShape(line) /\ TextAddr(line) + TextCount(line) <= 65536

\* The stepwise loader and load_hex as a function agree on every file.
LoaderAgrees ==
    pc = "loaded" /\ runs = 0 /\ ver = "hex2c.c" /\ img = NoImage
        => Cur = load_hex(file)

\* C3: hex_parse accepts a line only if the bytes written on it (count, address
\* high and low, type, payload, checksum) add up to 0 modulo 256; a line that is
\* well-formed otherwise and adds up to something else is rejected with -1.
C3_ChecksumGate ==
    pc = "parsed" =>
        /\ pres.type # -1 => IsHexText(pline) /\ TextSum(pline) % 256 = 0
        /\ WellFormed(pline) /\ TextSum(pline) % 256 # 0 => pres.type = -1

C3_Witness ==
    /\ pc = "parsed" /\ WellFormed(pline)
    /\ TextSum(pline) % 256 # 0 /\ pres.type = -1
    /\ TextAddr(pline) >= 256 /\ TextCount(pline) > 0

\* C4: an accepted Data record has address + count <= 65536 and load_hex writes
\* no byte outside the 65536 bytes of the buffer; a Data record of 1 byte at
\* 65535 is accepted, one of 2 bytes at 65535 is rejected.
C4_WithinBuffer ==
    /\ \A a \in DOMAIN bin : a >= 0 /\ a < 65536
    /\ sz <= 65536
    /\ pc = "load" /\ ~FgetsEOF =>
        LET l == FgetsLine
            c == hex_parse(l)
            top == HasShape(l) /\ TextSum(l) % 256 = 0 /\ TextType(l) = 0
                   /\ TextAddr(l) = 65535
        IN  /\ c.type = 0 => c.address + c.length <= 65536
            /\ top /\ TextCount(l) = 1 => c.type = 0 /\ c.address = 65535 /\ c.length = 1
            /\ top /\ TextCount(l) = 2 => c.type = -1

C4_Witness ==
    /\ pc = "loaded" /\ sz = 65536 /\ 65535 \in DOMAIN bin /\ bin[65535] = 170
    /\ \E i \in 1..Len(file) : i < fline /\ file[i] = L_top2
    /\ \E i \in 1..Len(warnings) : warnings[i].msg = "invalid record"

\* a line that is a record with a valid checksum inside the address space
Accepted(line) == WellFormed(line) /\ TextSum(line) % 256 = 0
IsEOFRec(line) == Accepted(line) /\ TextType(line) = 1
IsDataRec(line) == Accepted(line) /\ TextType(line) = 0

RECURSIVE CharCount(_)
CharCount(ls) == IF ls = <<>> THEN 0 ELSE Len(Head(ls)) + CharCount(Tail(ls))
\* characters of the stream read so far
Consumed == CharCount(SubSeq(file, 1, fline - 1)) + foff

CountMsg(ws, m) == Cardinality({j \in 1..Len(ws) : ws[j].msg = m})

\* C8: the load stops at the first accepted EOF record: nothing after it is
\* read, and image, size and warnings are those of the input cut after it.
C8_StopsAtEOF ==
    pc = "loaded" =>
        LET lines == fgets_all(file)
            n == lineno - 1
        IN  /\ found_eof <=> \E j \in 1..Len(lines) : IsEOFRec(lines[j])
            /\ found_eof =>
                /\ n \in 1..Len(lines) /\ IsEOFRec(lines[n])
                /\ \A j \in 1..(n - 1) : ~IsEOFRec(lines[j])
                /\ Consumed = CharCount(SubSeq(lines, 1, n))
                /\ Cur = load_lines(SubSeq(lines, 1, n))

C8_Witness ==
    /\ pc = "loaded" /\ found_eof /\ fline <= Len(file) /\ sz > 0 /\ sz < 65536
    /\ \E i \in fline..Len(file) : IsDataRec(file[i]) /\ TextAddr(file[i]) = 65535

\* C9: an input that ends with no accepted EOF record gives exactly one
\* 'no EOF record' warning, as the last warning, and the image and size are the
\* ones the same input followed by an EOF record gives; with an accepted EOF
\* record there is no such warning.
C9_MissingEOF ==
    pc = "loaded" =>
        LET lines == fgets_all(file)
            eof == \E j \in 1..Len(lines) : IsEOFRec(lines[j])
            full == load_lines(lines \o <<EOFRecord>>)
        IN  /\ eof => CountMsg(warnings, "no EOF record") = 0
            /\ ~eof =>
                /\ CountMsg(warnings, "no EOF record") = 1
                /\ warnings[Len(warnings)].msg = "no EOF record"
                /\ bin = full.bin /\ sz = full.sz
                /\ SubSeq(warnings, 1, Len(warnings) - 1) = full.warnings

C9_Witness ==
    /\ pc = "loaded" /\ ~found_eof /\ sz > 0 /\ Len(file) = fline - 1
    /\ CountMsg(warnings, "no EOF record") = 1
    /\ CountMsg(warnings, "invalid record") > 0

\* a physical line that fails to parse
Fails(line) == ~Accepted(line) \/ TextType(line) > 5
\* the physical lines read by the load
ReadLines == {i \in 1..Len(file) : i < fline \/ (i = fline /\ foff > 0)}

\* C5: every line that fails to parse gives exactly one warning, and image and
\* size are those of the same input without the failing lines.
C5_Resilience ==
    pc = "loaded" =>
        LET kept == load_hex(SelectSeq(file, LAMBDA l : ~Fails(l)))
        IN  /\ CountMsg(warnings, "invalid record")
                = Cardinality({i \in ReadLines : Fails(file[i])})
            /\ bin = kept.bin /\ sz = kept.sz

\* The same holds of every input whose lines fit the read buffer.
ResilienceOfShortLines ==
    (\A i \in 1..Len(file) : Len(file[i]) < LINE_BUF) => C5_Resilience

\* C7: when no Data byte was written the size is 0 and nothing is output.
C7_EmptyImage ==
    (pc \in {"loaded", "done"} /\ DOMAIN bin = {}) =>
        /\ sz = 0
        /\ pc = "done" => out = <<>>

\* C6: the image is the buffer from the lowest to the highest written address;
\* :0300300002337A1E and :00000001FF give 3 bytes, and the same two lines
\* again when written with wrap 16.
C6_SlicedImage ==
    (pc = "done" /\ DOMAIN bin # {}) =>
        LET lo == CHOOSE a \in DOMAIN bin : \A b \in DOMAIN bin : a <= b
            hi == CHOOSE a \in DOMAIN bin : \A b \in DOMAIN bin : a >= b
        IN  /\ sz = hi + 1 - lo
            /\ Peek(bin, 0) = bin[lo]
            /\ (file = <<L_data30, EOFRecord>> /\ o_wrap \in {0, 16}) => out = file

\* C1: the lines written for an image with a wrap in 1..255, read back, give
\* the same bytes, base and entry.  What load_hex returns is the buffer from
\* address 0 and its size: its base is 0 and it has no entry.
C1_RoundTrip ==
    (pc = "loaded" /\ runs = 0 /\ w_arg \in 1..255) =>
        LET base == 0
            entry == 0
        IN  /\ sz = img.sz
            /\ \A i \in 0..(img.sz - 1) : Peek(bin, i) = img.data[i]
            /\ base = img.base
            /\ entry = img.entry

\* The round trip holds of hex2c.c alone (no base, no entry), for every wrap.
RoundTripBase0 ==
    (pc = "loaded" /\ runs = 0 /\ ver = "hex2c.c") =>
        /\ sz = img.sz
        /\ \A i \in 0..(img.sz - 1) : Peek(bin, i) = img.data[i]

\* C2: on every line the encoders write, count, address bytes, type, data and
\* checksum add up to 0 modulo 256.
C2_EncoderChecksum ==
    \A k \in 1..Len(out) : IsHexText(out[k]) /\ TextSum(out[k]) % 256 = 0

EOFText == <<":","0","0","0","0","0","0","0","1","F","F">>

\* C11: the encoder's output ends with the line :00000001FF, which occurs once;
\* with an entry other than 0 there is one start address record, carrying the
\* entry in 16 bits, after all Data records and right before the EOF record;
\* with entry 0 (and in hex2c.c, which has no entry) there is none.
C11_Trailer ==
    pc = "done" =>
        LET n == Len(out)
            starts == {k \in 1..n : TextType(out[k]) = 3}
        IN  /\ n >= 1 /\ out[n] = EOFText \o <<"\n">>
            /\ {k \in 1..n : Stripped(out[k]) = EOFText} = {n}
            /\ img.entry = 0 => starts = {}
            /\ img.entry # 0 =>
                /\ starts = {n - 1}
                /\ Accepted(out[n - 1]) /\ TextCount(out[n - 1]) = 4
                /\ 256 * TextByte(out[n - 1], 6) + TextByte(out[n - 1], 7) = img.entry
                /\ \A k \in 1..(n - 2) : TextType(out[k]) = 0

C11_Witness ==
    /\ pc = "done" /\ ver = "part_002" /\ img.entry = 65535 /\ img.sz > 16
    /\ Len(out) = 4 /\ TextType(out[3]) = 3 /\ TextType(out[2]) = 0

\* C12: every Data record written has a four-digit address of at most 0xFFFF
\* and address + count <= 65536, whatever the size of the image; of a binary
\* file of more than 65536 bytes the first 65536 are written.
C12_DataInRange ==
    pc = "done" =>
        LET recs == {k \in 1..Len(out) : TextType(out[k]) = 0}
        IN  /\ \A k \in recs :
                /\ HasShape(out[k]) /\ out[k][Len(out[k])] = "\n"
                /\ TextAddr(out[k]) <= 65535
                /\ TextAddr(out[k]) + TextCount(out[k]) <= 65536
            /\ \A k \in 1..Len(out) : k \notin recs => k >= Len(out) - 1
            /\ ver = "hex2c.c" =>
                /\ SeqSum([k \in 1..(Len(out) - 1) |-> TextCount(out[k])])
                        = (IF img.sz > 65536 THEN 65536 ELSE img.sz)
                /\ \A k \in recs : \A j \in 1..TextCount(out[k]) :
                        TextData(out[k])[j] = Peek(img.data, TextAddr(out[k]) + j - 1)

C12_Witness ==
    /\ pc = "done" /\ ver = "hex2c.c" /\ img.sz = 65536 + 255
    /\ Len(out) = 259 /\ TextAddr(out[258]) = 65535 /\ TextCount(out[258]) = 1
    /\ TextData(out[258]) = <<Pattern(1, 65535)>>

\* a character of the stripped line after the first is no hex digit
HasNonHex(line) == \E i \in 2..Len(Stripped(line)) : Nib(Stripped(line)[i]) < 0

\* C13 as written: a line is rejected when it is empty, when its length
\* without the line end is odd, below 11 or above 11 + 2 * 255, when it does
\* not start with a colon, or when a later character is no hex digit.
C13_RejectsOddLength ==
    (/\ pc = "parsed"
     /\ \/ pline = <<>>
        \/ Len(Stripped(pline)) % 2 = 1
        \/ Len(Stripped(pline)) < 11
        \/ Len(Stripped(pline)) > 11 + 2 * 255
        \/ pline[1] # ":"
        \/ HasNonHex(pline)) => pres.type = -1

\* C13, amended: the length that is rejected is the even one (a colon and an
\* even number of hex digits make an odd length).
C13_RejectsMalformed ==
    (/\ pc = "parsed"
     /\ \/ pline = <<>>
        \/ Len(Stripped(pline)) % 2 = 0
        \/ Len(Stripped(pline)) < 11
        \/ Len(Stripped(pline)) > 11 + 2 * 255
        \/ pline[1] # ":"
        \/ HasNonHex(pline)) => pres.type = -1

C13_Witness ==
    /\ pc = "parsed" /\ pres.type = -1
    /\ Len(pline) = 12 /\ pline[1] = ":" /\ Len(Stripped(pline)) = 11
    /\ HasNonHex(pline) /\ pline[10] = "G"

\* a line with the shape of a record and a valid checksum, by its type
Valid(line) == HasShape(line) /\ TextSum(line) % 256 = 0
IsExtRec(line) == Valid(line) /\ TextType(line) \in 2..5
IsUnknownRec(line) == Valid(line) /\ TextType(line) > 5

\* the step of the load that reads such a line: one warning, nothing else
ExtStep ==
    (pc = "load" /\ fline <= Len(file)) =>
        LET l == FgetsLine
            only(msg) ==
                /\ warnings' = Append(warnings, [lineno |-> lineno, msg |-> msg])
                /\ bin' = bin /\ sz' = sz /\ found_eof' = FALSE /\ pc' = "load"
        IN  /\ IsExtRec(l) => only("extended record")
            /\ IsUnknownRec(l) => only("invalid record")

\* the image is the one of the input without these lines
ExtSkipped ==
    pc = "loaded" =>
        LET kept == load_hex(SelectSeq(file, LAMBDA l : ~IsExtRec(l) /\ ~IsUnknownRec(l)))
        IN  bin = kept.bin /\ sz = kept.sz

\* C14: a line with the shape of a record, a valid checksum and a type in 2..5,
\* whatever its address and count, gives one 'extended record' warning and
\* changes neither image nor size nor the addresses of later Data records, and
\* the load goes on; with a type above 5 it gives one 'invalid record' warning
\* and changes nothing either.
C14_ExtendedRecords == []ExtSkipped /\ [][ExtStep]_vars

\* The same holds of the extended records that end within the 64KB.
ExtStepInRange ==
    (pc = "load" /\ fline <= Len(file)) =>
        (IsExtRec(FgetsLine) /\ WellFormed(FgetsLine) =>
            /\ warnings' = Append(warnings, [lineno |-> lineno, msg |-> "extended record"])
            /\ bin' = bin /\ sz' = sz /\ found_eof' = FALSE /\ pc' = "load")
        /\ (IsUnknownRec(FgetsLine) =>
            /\ warnings' = Append(warnings, [lineno |-> lineno, msg |-> "invalid record"])
            /\ bin' = bin /\ sz' = sz /\ found_eof' = FALSE /\ pc' = "load")
ExtendedRecordsInRange == []ExtSkipped /\ [][ExtStepInRange]_vars

\* the line :01003000FFFF
Line01003000FFFF == <<":","0","1","0","0","3","0","0","0","F","F","F","F","\n">>

\* what hex_parse accepts is as long as its count says
DeclaredLength ==
    (pc = "load" /\ fline <= Len(file)) =>
        (hex_parse(FgetsLine).type # -1 =>
            /\ IsHexText(FgetsLine)
            /\ Len(Stripped(FgetsLine)) = 11 + 2 * TextCount(FgetsLine))

\* the step that reads :01003000FFFF rejects it, gives one warning and changes
\* no byte; lengthFails: the line is not as long as its count says
RejectedFF(lengthFails) ==
    (pc = "load" /\ fline <= Len(file) /\ FgetsLine = Line01003000FFFF) =>
        /\ hex_parse(FgetsLine).type = -1
        /\ lengthFails <=> Len(Stripped(FgetsLine)) # 11 + 2 * TextCount(FgetsLine)
        /\ lengthFails \/ TextSum(FgetsLine) % 256 # 0
        /\ warnings' = Append(warnings, [lineno |-> lineno, msg |-> "invalid record"])
        /\ bin' = bin /\ sz' = sz

\* C15 as written: hex_parse accepts a line only when its length without the
\* line end is 11 + 2 * count; :01003000FFFF fails this test of the length, is
\* rejected with one warning, and image and size stay as they are.
C15_LengthRejectsFF == []DeclaredLength /\ [][RejectedFF(TRUE)]_vars

\* C15, amended: :01003000FFFF is as long as its count says (13 = 11 + 2 * 1);
\* it is rejected because its bytes do not add up to 0 modulo 256.
C15_DeclaredLength == []DeclaredLength /\ [][RejectedFF(FALSE)]_vars

C15_Witness ==
    /\ pc = "loaded" /\ Len(file) = 3 /\ fline = 4
    /\ file[1] = L_data30 /\ file[2] = Line01003000FFFF
    /\ Len(Stripped(file[3])) > 11 + 2 * TextCount(file[3])
    /\ warnings = <<[lineno |-> 2, msg |-> "invalid record"],
                    [lineno |-> 3, msg |-> "invalid record"],
                    [lineno |-> 4, msg |-> "no EOF record"]>>
    /\ sz = 51 /\ bin[48] = 2

\* C16: after a load every address covered by an accepted Data record read
\* before the first EOF record holds the byte of the last such record, and
\* every other address inside the image holds the fill value 0xFF.
C16_LastWriteWins ==
    pc = "loaded" =>
        LET lines == fgets_all(file)
            eofs == {j \in 1..Len(lines) : IsEOFRec(lines[j])}
            recs == {j \in 1..Len(lines) :
                        IsDataRec(lines[j]) /\ \A e \in eofs : j < e}
            cover(a) == {j \in recs : /\ TextAddr(lines[j]) <= a
                                       /\ a < TextAddr(lines[j]) + TextCount(lines[j])}
            last(a) == CHOOSE j \in cover(a) : \A k \in cover(a) : k <= j
        IN  /\ \A j \in recs : TextAddr(lines[j]) + TextCount(lines[j]) <= sz
            /\ DOMAIN bin \subseteq 0..(sz - 1)
            /\ \A a \in 0..(sz - 1) :
                IF cover(a) = {}
                THEN a \notin DOMAIN bin /\ Peek(bin, a) = 255
                ELSE /\ a \in DOMAIN bin
                     /\ bin[a] = TextData(lines[last(a)])[a - TextAddr(lines[last(a)]) + 1]

C16_Witness ==
    /\ pc = "loaded" /\ file = <<L_data30, L_over4, L_over1>>
    /\ sz = 51 /\ DOMAIN bin = 47..50
    /\ bin[47] = 17 /\ bin[48] = 9 /\ bin[49] = 51 /\ bin[50] = 68

\* the warnings that name a line of the input
LineWarnings == {i \in 1..Len(warnings) : warnings[i].msg # "no EOF record"}

\* C17: a warning carries the number, counted from 1, of the physical line that
\* caused it; every physical line, however long, is parsed as one record and
\* causes at most one warning.
C17_PhysicalLines ==
    /\ pc = "load" => foff = 0 /\ lineno = fline
    /\ \A i \in LineWarnings :
        /\ warnings[i].lineno \in ReadLines
        /\ ~IsDataRec(file[warnings[i].lineno])
        /\ ~IsEOFRec(file[warnings[i].lineno])
        /\ \A k \in LineWarnings : warnings[k].lineno = warnings[i].lineno => k = i
    /\ Cardinality(LineWarnings) <= Cardinality(ReadLines)

\* The same holds of every input whose lines fit the read buffer.
PhysicalLinesIfShort ==
    (\A i \in 1..Len(file) : Len(file[i]) < LINE_BUF) => C17_PhysicalLines

====
